---- MODULE Spec2Model ----
(***************************************************************************)
(* Model of the Discord-ID form controller: src/Id.js and its near         *)
(* duplicate src/unnamed/part_000.  A page holds a text input (did), a     *)
(* copy button and a continue button.  Clicking copy writes the input to   *)
(* the clipboard (async, with a fallback) and enables continue; clicking   *)
(* continue navigates to TARGET + sep + "discord_id=" + encoded value.     *)
(*                                                                         *)
(* JavaScript strings are modelled as sequences of one-character strings,  *)
(* so that concatenation, includes() and encodeURIComponent are computed.  *)
(***************************************************************************)
EXTENDS Integers, Sequences, FiniteSets, TLC

VARIABLES
    variant,      \* which script the page loads: "Id.js" or "part_000"
    scriptTag,    \* the script element the target is read from (page input)
    clipboardApi, \* TRUE iff navigator.clipboard exists in this browser
    TARGET,       \* const TARGET: [isNull, str]; isNull models the JS value null
    value,        \* didInput.value
    selected,     \* TRUE iff the input's text is selected (didInput.select())
    textContent,  \* copyBtn.textContent
    disabled,     \* contBtn.disabled
    inflight,     \* copy handlers suspended at `await writeText(..)`, oldest first
    clipboard,    \* system clipboard: [set, str]
    href,         \* location.href assignment: [nav, url]; nav = page is leaving
    issued,       \* number of copy clicks handled so far
    execResult,   \* result of the last document.execCommand('copy'): "none"/"true"/"false"
    contError,    \* TRUE iff a continue click handler ended in a TypeError
    first,        \* [label, branch] of the first copy completed for the current value
    last,         \* [label, branch] of the latest copy completed for the current value
    lastBranch,   \* branch taken by the copy handler that finished last: "none"/"resolved"/"caught"
    raced         \* TRUE iff a copy click arrived while another write was pending

vars == <<variant, scriptTag, clipboardApi, TARGET, value, selected, textContent,
          disabled, inflight, clipboard, href, issued, execResult, contError,
          first, last, lastBranch, raced>>

(***************************************************************************)
(* Bounds                                                                  *)
(***************************************************************************)
MaxInflight == 2    \* clipboard writes pending at the same time
MaxCopies == 3      \* copy clicks in one page lifetime

(***************************************************************************)
(* Input sets                                                              *)
(***************************************************************************)
\* Values the user can have typed into the input field (well-formed text:
\* plain characters and characters encodeURIComponent escapes).
InputValues ==
    { <<>>,
      <<"1", "2">>,
      <<"a", " ", "1">>,
      <<"a", "&", "b", "#">>,
      <<"?", "=", "%">> }

\* data-target attribute values the hosting page can carry.
TargetValues ==
    { <<>>,
      <<"/", "w">>,
      <<"/", "w", "?", "r", "=", "a">>,
      <<"/", "w", "?", "a", "?", "b">> }

\* The script element: absent, present without data-target, or with a value.
ScriptTags ==
    { [present |-> FALSE, hasAttr |-> FALSE, attr |-> <<>>],
      [present |-> TRUE,  hasAttr |-> FALSE, attr |-> <<>>] }
    \cup { [present |-> TRUE, hasAttr |-> TRUE, attr |-> t] : t \in TargetValues }

(***************************************************************************)
(* Pure functions                                                          *)
(***************************************************************************)
\* Characters encodeURIComponent leaves as they are (A-Z a-z 0-9 - _ . ! ~ * ' ( )).
Unescaped ==
    { "a", "b", "r", "w", "x", "1", "2", "3", "-", "_", ".", "!", "~", "*", "'", "(", ")" }

\* %XX escape of one character outside Unescaped (its UTF-8 byte, upper-case hex).
Escape(c) ==
    CASE c = " " -> <<"%", "2", "0">>
      [] c = "#" -> <<"%", "2", "3">>
      [] c = "%" -> <<"%", "2", "5">>
      [] c = "&" -> <<"%", "2", "6">>
      [] c = "/" -> <<"%", "2", "F">>
      [] c = "=" -> <<"%", "3", "D">>
      [] c = "?" -> <<"%", "3", "F">>

RECURSIVE encodeURIComponent(_)
encodeURIComponent(s) ==
    IF s = <<>> THEN <<>>
    ELSE (IF Head(s) \in Unescaped THEN <<Head(s)>> ELSE Escape(Head(s)))
         \o encodeURIComponent(Tail(s))

\* String.prototype.includes for a one-character needle.
includes(s, c) == \E i \in DOMAIN s : s[i] = c

\* The literal 'discord_id='.
DiscordIdKey == <<"d", "i", "s", "c", "o", "r", "d", "_", "i", "d", "=">>

\* Mutant of sep: the "&" case forgotten.
sep_AlwaysQuestion(T) == <<"?">>

\* sep of the continue handler.
sep(T) == IF includes(T, "?") THEN <<"&">> ELSE <<"?">>

\* The string the continue handler assigns to location.href.
Destination(T, v) == T \o sep(T) \o DiscordIdKey \o encodeURIComponent(v)

\* const TARGET of src/Id.js: scriptTag ? scriptTag.getAttribute('data-target') : "".
\* getAttribute returns null for a missing attribute.
TARGET_Id(tag) ==
    IF tag.present
    THEN (IF tag.hasAttr THEN [isNull |-> FALSE, str |-> tag.attr]
                         ELSE [isNull |-> TRUE, str |-> <<>>])
    ELSE [isNull |-> FALSE, str |-> <<>>]

\* const TARGET of part_000: document.currentScript.getAttribute('data-target') || "".
TARGET_part(tag) ==
    IF tag.hasAttr /\ tag.attr # <<>>
    THEN [isNull |-> FALSE, str |-> tag.attr]
    ELSE [isNull |-> FALSE, str |-> <<>>]

\* Confirmation strings of the two variants.
CopiedLabel == "Copied!"
FallbackLabel_Id == "Copied (fallback)!"
FallbackLabel_part == "Select & copy"

NoCopy == [label |-> "", branch |-> "none"]

(***************************************************************************)
(* Initial state: the page has loaded and the script has bound its handlers*)
(***************************************************************************)
Init ==
    /\ variant \in {"Id.js", "part_000"}
    /\ scriptTag \in ScriptTags
    \* part_000 runs as a classic script: document.currentScript is its own tag
    /\ variant = "part_000" => scriptTag.present
    /\ clipboardApi \in BOOLEAN
    /\ TARGET = IF variant = "Id.js" THEN TARGET_Id(scriptTag) ELSE TARGET_part(scriptTag)
    /\ value \in InputValues
    /\ selected = FALSE
    /\ textContent = "Copy"
    \* the hosting page ships the continue button with the disabled attribute
    /\ disabled = TRUE
    /\ inflight = <<>>
    /\ clipboard = [set |-> FALSE, str |-> <<>>]
    /\ href = [nav |-> FALSE, url |-> <<>>]
    /\ issued = 0
    /\ execResult = "none"
    /\ contError = FALSE
    /\ first = NoCopy
    /\ last = NoCopy
    /\ lastBranch = "none"
    /\ raced = FALSE

(***************************************************************************)
(* Copy handler                                                            *)
(***************************************************************************)
\* Bookkeeping: a copy handler finished with this label on this branch.
\* fresh = the click was made with the input value as it is now.
Completed(label, branch, fresh) ==
    /\ first' = IF fresh /\ first = NoCopy
                THEN [label |-> label, branch |-> branch] ELSE first
    /\ last' = IF fresh THEN [label |-> label, branch |-> branch] ELSE last
    /\ lastBranch' = branch

\* Mutant of copyResolved_Id: continue enabled in the catch branch only.
copyResolved_Id_NoEnable(e) ==
    /\ clipboard' = [set |-> TRUE, str |-> e.val]
    /\ textContent' = CopiedLabel
    /\ UNCHANGED <<disabled, selected, execResult>>
    /\ Completed(CopiedLabel, "resolved", e.fresh)

\* src/Id.js, after `await` resolved: line 11, then line 18.
\* The resolved write has put the value passed to writeText on the clipboard.
copyResolved_Id(e) ==
    /\ clipboard' = [set |-> TRUE, str |-> e.val]
    /\ textContent' = CopiedLabel
    /\ disabled' = FALSE
    /\ UNCHANGED <<selected, execResult>>
    /\ Completed(CopiedLabel, "resolved", e.fresh)

\* Mutant of copyCaught_Id: continue enabled only if the legacy copy succeeded.
copyCaught_Id_Gated(fresh) ==
    \E ok \in BOOLEAN :
        /\ selected' = TRUE
        /\ execResult' = IF ok THEN "true" ELSE "false"
        /\ clipboard' = IF ok THEN [set |-> TRUE, str |-> value] ELSE clipboard
        /\ textContent' = FallbackLabel_Id
        /\ disabled' = IF ok THEN FALSE ELSE disabled
        /\ Completed(FallbackLabel_Id, "caught", fresh)

\* src/Id.js, catch branch: lines 14-16, then line 18.
\* execCommand('copy') returns true or false; its result is discarded.
copyCaught_Id(fresh) ==
    \E ok \in BOOLEAN :
        /\ selected' = TRUE
        /\ execResult' = IF ok THEN "true" ELSE "false"
        /\ clipboard' = IF ok THEN [set |-> TRUE, str |-> value] ELSE clipboard
        /\ textContent' = FallbackLabel_Id
        /\ disabled' = FALSE
        /\ Completed(FallbackLabel_Id, "caught", fresh)

\* part_000, after `await` resolved: lines 10-11.
copyResolved_part(e) ==
    /\ clipboard' = [set |-> TRUE, str |-> e.val]
    /\ textContent' = CopiedLabel
    /\ disabled' = FALSE
    /\ UNCHANGED <<selected, execResult>>
    /\ Completed(CopiedLabel, "resolved", e.fresh)

\* Mutant of copyCaught_part: the label update left out of the catch branch.
copyCaught_part_NoLabel(fresh) ==
    /\ selected' = TRUE
    /\ disabled' = FALSE
    /\ UNCHANGED <<textContent, clipboard, execResult>>
    /\ Completed(textContent, "caught", fresh)

\* part_000, catch branch: lines 13-15.  No legacy copy command here.
copyCaught_part(fresh) ==
    /\ selected' = TRUE
    /\ textContent' = FallbackLabel_part
    /\ disabled' = FALSE
    /\ UNCHANGED <<clipboard, execResult>>
    /\ Completed(FallbackLabel_part, "caught", fresh)

\* Mutant of Suspend: continue enabled before the write is awaited.
Suspend_EnableEarly ==
    /\ Len(inflight) < MaxInflight
    /\ inflight' = Append(inflight, [val |-> value, fresh |-> TRUE])
    /\ raced' = (raced \/ inflight # <<>>)
    /\ disabled' = FALSE
    /\ UNCHANGED <<textContent, selected, clipboard, execResult, first, last, lastBranch>>

\* The handler reaches `await navigator.clipboard.writeText(didInput.value)`
\* and suspends; nothing of the page is written before the write settles.
Suspend ==
    /\ Len(inflight) < MaxInflight
    /\ inflight' = Append(inflight, [val |-> value, fresh |-> TRUE])
    /\ raced' = (raced \/ inflight # <<>>)
    /\ UNCHANGED <<textContent, disabled, selected, clipboard, execResult, first, last,
                   lastBranch>>

RemoveAt(s, i) == SubSeq(s, 1, i - 1) \o SubSeq(s, i + 1, Len(s))

\* Mutant of copyBtnClick_Id: continue locked while the write is pending.
copyBtnClick_Id_LockContinue ==
    /\ variant = "Id.js"
    /\ ~href.nav
    /\ issued < MaxCopies
    /\ issued' = issued + 1
    /\ IF clipboardApi
       THEN /\ Len(inflight) < MaxInflight
            /\ inflight' = Append(inflight, [val |-> value, fresh |-> TRUE])
            /\ raced' = (raced \/ inflight # <<>>)
            /\ disabled' = TRUE
            /\ UNCHANGED <<textContent, selected, clipboard, execResult, first, last,
                           lastBranch>>
       ELSE copyCaught_Id(TRUE) /\ UNCHANGED <<inflight, raced>>
    /\ UNCHANGED <<variant, scriptTag, clipboardApi, TARGET, value, href, contError>>

\* Click on the copy button, src/Id.js.  Without navigator.clipboard the
\* property access throws inside try and the catch branch runs in the click.
copyBtnClick_Id ==
    /\ variant = "Id.js"
    /\ ~href.nav
    /\ issued < MaxCopies
    /\ issued' = issued + 1
    /\ IF clipboardApi
       THEN Suspend
       ELSE copyCaught_Id(TRUE) /\ UNCHANGED <<inflight, raced>>
    /\ UNCHANGED <<variant, scriptTag, clipboardApi, TARGET, value, href, contError>>

\* Mutant of copyBtnResume_Id: the input is cleared after a successful copy.
copyBtnResume_Id_ClearsInput ==
    /\ variant = "Id.js"
    /\ ~href.nav
    /\ \E i \in DOMAIN inflight, outcome \in {"resolve", "reject"} :
           /\ inflight' = RemoveAt(inflight, i)
           /\ IF outcome = "resolve"
              THEN copyResolved_Id(inflight[i]) /\ value' = <<>>
              ELSE copyCaught_Id(inflight[i].fresh) /\ value' = value
    /\ UNCHANGED <<variant, scriptTag, clipboardApi, TARGET, href, contError,
                   issued, raced>>

\* A pending clipboard write settles and its handler resumes, src/Id.js.
copyBtnResume_Id ==
    /\ variant = "Id.js"
    /\ ~href.nav
    /\ \E i \in DOMAIN inflight, outcome \in {"resolve", "reject"} :
           /\ inflight' = RemoveAt(inflight, i)
           /\ IF outcome = "resolve"
              THEN copyResolved_Id(inflight[i])
              ELSE copyCaught_Id(inflight[i].fresh)
    /\ UNCHANGED <<variant, scriptTag, clipboardApi, TARGET, value, href, contError,
                   issued, raced>>

\* Mutant of copyBtnClick_part: the label set before the write is awaited.
copyBtnClick_part_LabelFirst ==
    /\ variant = "part_000"
    /\ ~href.nav
    /\ issued < MaxCopies
    /\ issued' = issued + 1
    /\ IF clipboardApi
       THEN /\ Len(inflight) < MaxInflight
            /\ inflight' = Append(inflight, [val |-> value, fresh |-> TRUE])
            /\ raced' = (raced \/ inflight # <<>>)
            /\ textContent' = CopiedLabel
            /\ UNCHANGED <<disabled, selected, clipboard, execResult, first, last,
                           lastBranch>>
       ELSE copyCaught_part(TRUE) /\ UNCHANGED <<inflight, raced>>
    /\ UNCHANGED <<variant, scriptTag, clipboardApi, TARGET, value, href, contError>>

\* Click on the copy button, part_000.
copyBtnClick_part ==
    /\ variant = "part_000"
    /\ ~href.nav
    /\ issued < MaxCopies
    /\ issued' = issued + 1
    /\ IF clipboardApi
       THEN Suspend
       ELSE copyCaught_part(TRUE) /\ UNCHANGED <<inflight, raced>>
    /\ UNCHANGED <<variant, scriptTag, clipboardApi, TARGET, value, href, contError>>

\* A pending clipboard write settles and its handler resumes, part_000.
copyBtnResume_part ==
    /\ variant = "part_000"
    /\ ~href.nav
    /\ \E i \in DOMAIN inflight, outcome \in {"resolve", "reject"} :
           /\ inflight' = RemoveAt(inflight, i)
           /\ IF outcome = "resolve"
              THEN copyResolved_part(inflight[i])
              ELSE copyCaught_part(inflight[i].fresh)
    /\ UNCHANGED <<variant, scriptTag, clipboardApi, TARGET, value, href, contError,
                   issued, raced>>

(***************************************************************************)
(* Continue handler                                                        *)
(***************************************************************************)
\* Click on the continue button, src/Id.js.  A disabled button gets no click.
\* Assigning location.href unloads the page: no handler runs after it.
\* TARGET.includes on null throws a TypeError before location.href is set.
contBtnClick_Id ==
    /\ variant = "Id.js"
    /\ ~href.nav
    /\ ~disabled
    /\ IF TARGET.isNull
       THEN contError' = TRUE /\ UNCHANGED href
       ELSE /\ href' = [nav |-> TRUE, url |-> Destination(TARGET.str, value)]
            /\ UNCHANGED contError
    /\ UNCHANGED <<variant, scriptTag, clipboardApi, TARGET, value, selected,
                   textContent, disabled, inflight, clipboard, issued, execResult,
                   first, last, lastBranch, raced>>

\* Mutant of contBtnClick_part: the value of the latest copy click is sent.
contBtnClick_part_Cached ==
    /\ variant = "part_000"
    /\ ~href.nav
    /\ ~disabled
    /\ href' = [nav |-> TRUE,
                url |-> Destination(TARGET.str,
                                    IF inflight # <<>> THEN inflight[Len(inflight)].val
                                    ELSE clipboard.str)]
    /\ UNCHANGED <<variant, scriptTag, clipboardApi, TARGET, value, selected,
                   textContent, disabled, inflight, clipboard, issued, execResult,
                   contError, first, last, lastBranch, raced>>

\* Click on the continue button, part_000 (TARGET is always a string there).
contBtnClick_part ==
    /\ variant = "part_000"
    /\ ~href.nav
    /\ ~disabled
    /\ href' = [nav |-> TRUE, url |-> Destination(TARGET.str, value)]
    /\ UNCHANGED <<variant, scriptTag, clipboardApi, TARGET, value, selected,
                   textContent, disabled, inflight, clipboard, issued, execResult,
                   contError, first, last, lastBranch, raced>>

(***************************************************************************)
(* The user edits the input field                                          *)
(***************************************************************************)
EditInput ==
    /\ ~href.nav
    /\ \E v \in InputValues \ {value} : value' = v
    /\ selected' = FALSE
    /\ inflight' = [i \in DOMAIN inflight |-> [inflight[i] EXCEPT !.fresh = FALSE]]
    /\ first' = NoCopy
    /\ last' = NoCopy
    /\ UNCHANGED <<variant, scriptTag, clipboardApi, TARGET, textContent, disabled,
                   clipboard, href, issued, execResult, contError, lastBranch, raced>>

Next ==
    \/ copyBtnClick_Id
    \/ copyBtnResume_Id
    \/ copyBtnClick_part
    \/ copyBtnResume_part
    \/ contBtnClick_Id
    \/ contBtnClick_part
    \/ EditInput

Spec == Init /\ [][Next]_vars

TypeOK ==
    /\ variant \in {"Id.js", "part_000"}
    /\ scriptTag \in ScriptTags
    /\ value \in InputValues
    /\ Len(inflight) <= MaxInflight
    /\ issued \in 0..MaxCopies

(***************************************************************************)
(* Vocabulary of the properties                                            *)
(***************************************************************************)
\* Number of copy click handlers that have run to completion.
completed == issued - Len(inflight)

\* A copy click handler finishes in this step.
CopyDone == issued' - Len(inflight') = completed + 1

\* A step of a copy click handler (its click, or its resumption after await).
CopyStep == issued' # issued \/ Len(inflight') < Len(inflight)

\* A step of a continue click handler.
ContStep == href' # href \/ contError' # contError

ConfirmationStrings ==
    IF variant = "Id.js" THEN {"Copied!", "Copied (fallback)!"}
                         ELSE {"Copied!", "Select & copy"}

FallbackString == IF variant = "Id.js" THEN "Copied (fallback)!" ELSE "Select & copy"

\* Characters that must not appear raw in a query parameter value.
RawReserved == {" ", "&", "#", "?", "=", "/"}

\* The character a %XX escape stands for.
Unhex(h1, h2) ==
    CASE h1 = "2" /\ h2 = "0" -> " "
      [] h1 = "2" /\ h2 = "3" -> "#"
      [] h1 = "2" /\ h2 = "5" -> "%"
      [] h1 = "2" /\ h2 = "6" -> "&"
      [] h1 = "2" /\ h2 = "F" -> "/"
      [] h1 = "3" /\ h2 = "D" -> "="
      [] h1 = "3" /\ h2 = "F" -> "?"
      [] OTHER -> "invalid"

\* Percent-decoding, as the receiving server does it.
RECURSIVE PercentDecode(_)
PercentDecode(s) ==
    IF s = <<>> THEN <<>>
    ELSE IF Head(s) = "%"
         THEN IF Len(s) >= 3
              THEN <<Unhex(s[2], s[3])>> \o PercentDecode(SubSeq(s, 4, Len(s)))
              ELSE <<"invalid">>
         ELSE <<Head(s)>> \o PercentDecode(Tail(s))

\* Split of a destination url at the length of the target T.
SepOf(url, T) == SubSeq(url, Len(T) + 1, Len(T) + 1)
KeyOf(url, T) == SubSeq(url, Len(T) + 2, Len(T) + 12)
ParamOf(url, T) == SubSeq(url, Len(T) + 13, Len(url))

HasQuestionMark(T) == \E i \in 1..Len(T) : T[i] = "?"

\* The target configuration is missing or empty.
TargetMissing == ~scriptTag.present \/ ~scriptTag.hasAttr \/ scriptTag.attr = <<>>

(***************************************************************************)
(* Properties                                                              *)
(***************************************************************************)
\* C1: in both variants, once a copy click handler has finished (write
\* resolved, write rejected, or navigator.clipboard absent) the copy button's
\* label is one of the variant's two confirmation strings and the continue
\* button is enabled.
C1_LabelAndEnableAfterCopy ==
    completed >= 1 => textContent \in ConfirmationStrings /\ ~disabled

\* C1 witness: scenario "abc 123"-like value, write rejected, fallback label shown.
C1_Witness ==
    /\ clipboardApi
    /\ value = <<"a", " ", "1">>
    /\ completed = 1
    /\ lastBranch = "caught"
    /\ textContent = FallbackString
    /\ ~disabled

\* C2: after a continue click the destination is T + sep + "discord_id=" +
\* the percent-encoded value, sep being "&" iff T contains "?"; the appended
\* parameter holds no raw space, "&", "#" (nor "?", "=", "/") and decodes back
\* to the input value.
C2_Destination ==
    href.nav =>
        LET T == TARGET.str
            u == href.url
        IN  /\ Len(u) >= Len(T) + 12
            /\ SubSeq(u, 1, Len(T)) = T
            /\ SepOf(u, T) = (IF HasQuestionMark(T) THEN <<"&">> ELSE <<"?">>)
            /\ KeyOf(u, T) = <<"d", "i", "s", "c", "o", "r", "d", "_", "i", "d", "=">>
            /\ \A i \in DOMAIN ParamOf(u, T) : ParamOf(u, T)[i] \notin RawReserved
            /\ PercentDecode(ParamOf(u, T)) = value

\* C2 witness: a target with a query string and a value with "&" and "#".
C2_Witness ==
    /\ href.nav
    /\ TARGET.str = <<"/", "w", "?", "r", "=", "a">>
    /\ value = <<"a", "&", "b", "#">>
    /\ href.url = <<"/", "w", "?", "r", "=", "a", "&",
                    "d", "i", "s", "c", "o", "r", "d", "_", "i", "d", "=",
                    "a", "%", "2", "6", "b", "%", "2", "3">>

\* C3 (as claimed): with the target configuration missing or empty, once the
\* continue button has been clicked the target it used is the empty string,
\* the handler has not failed, and the page navigates to "?discord_id=" +
\* encoded value.
C3_MissingTargetStillNavigates ==
    TargetMissing /\ (href.nav \/ contError) =>
        /\ TARGET = [isNull |-> FALSE, str |-> <<>>]
        /\ ~contError
        /\ href.nav
        /\ SubSeq(href.url, 1, 12) =
              <<"?", "d", "i", "s", "c", "o", "r", "d", "_", "i", "d", "=">>
        /\ PercentDecode(SubSeq(href.url, 13, Len(href.url))) = value

\* C4: the continue button is enabled only if at least one copy click handler
\* has run to completion.
C4_EnabledOnlyAfterCopy ==
    ~disabled => completed >= 1

\* C4 witness: two clicks, one write still pending, one handler completed and
\* continue enabled by it.
C4_Witness ==
    /\ issued = 2
    /\ completed = 1
    /\ ~disabled

\* C5 (as claimed): with the input value unchanged every copy click yields the
\* label of the first one, and the continue button is never disabled again.
C5_SameLabelEveryClick ==
    /\ [](first # NoCopy => last.label = first.label)
    /\ [][~disabled => ~disabled']_vars

\* C5 (amended): with the input value unchanged, copy clicks whose clipboard
\* write ends the same way (both succeed, or both fail) yield the same label,
\* and the continue button is never disabled again once enabled.
C5_SameLabelPerOutcome ==
    /\ [](first # NoCopy /\ last.branch = first.branch => last.label = first.label)
    /\ [][~disabled => ~disabled']_vars

\* C5 witness: three clicks on an unchanged value, first and last on the same branch.
C5_Witness ==
    /\ completed = 3
    /\ first.branch = "caught"
    /\ last.branch = "caught"
    /\ last.label = first.label
    /\ textContent = last.label
    /\ ~disabled

C7_NoUpdateWhilePending ==
    [][/\ Len(inflight') > Len(inflight) =>
              textContent' = textContent /\ disabled' = disabled
       /\ (clipboardApi /\ (textContent' # textContent \/ disabled' # disabled)) =>
              Len(inflight') < Len(inflight)]_vars

\* C7 witness: a write is pending and the page still shows the initial label
\* with continue disabled.
C7_Witness ==
    /\ Len(inflight) = 1
    /\ issued = 1
    /\ textContent = "Copy"
    /\ disabled

\* C8: when copy clicks overlapped, once every pending write has settled the
\* continue button is enabled, whatever the outcomes and their order.
C8_RaceConverges ==
    raced /\ inflight = <<>> => ~disabled

\* C8 witness: two overlapping clicks settled with different outcomes.
C8_Witness ==
    /\ raced
    /\ inflight = <<>>
    /\ completed >= 2
    /\ first.branch = "caught"
    /\ last.branch = "resolved"
    /\ ~disabled

\* C9: a continue click sends the input's value at that moment: the parameter
\* decodes to it, and so differs from a copied value (on the clipboard, or of
\* a write still pending) that is not the current one.
C9_ContinueSendsCurrentValue ==
    [][~href.nav /\ href'.nav =>
          LET p == ParamOf(href'.url, TARGET.str)
          IN  /\ PercentDecode(p) = value
              /\ clipboard.set /\ clipboard.str # value => PercentDecode(p) # clipboard.str
              /\ \A i \in DOMAIN inflight :
                    inflight[i].val # value => PercentDecode(p) # inflight[i].val]_vars

\* C9 witness: copied v1, edited to v2, a second copy of v1 still pending, continued.
C9_Witness ==
    /\ href.nav
    /\ clipboard.set
    /\ clipboard.str = <<"1", "2">>
    /\ Len(inflight) = 1
    /\ inflight[1].val = <<"1", "2">>
    /\ value = <<"a", " ", "1">>
    /\ ParamOf(href.url, TARGET.str) = <<"a", "%", "2", "0", "1">>

\* C10 (as claimed): a copy handler step changes nothing of the page but the
\* label and the disabled flag; a continue handler step leaves label, flag,
\* input value and target alone; the target never changes.
C10_CopyOnlyLabelAndFlag ==
    [][/\ CopyStep => UNCHANGED <<value, selected, TARGET, href>>
       /\ ContStep => UNCHANGED <<textContent, disabled, value, TARGET>>
       /\ TARGET' = TARGET]_vars

\* C10 (amended): a copy handler step changes nothing of the page but the
\* label, the disabled flag and (on the fallback branch) the input's selection:
\* it leaves the input value and the target alone and never navigates; a
\* continue handler step leaves label, flag, input value and target alone; the
\* target never changes.
C10_Frame ==
    [][/\ CopyStep => UNCHANGED <<value, TARGET, href>>
       /\ (CopyStep /\ selected' # selected) => CopyDone /\ lastBranch' = "caught"
       /\ ContStep => UNCHANGED <<textContent, disabled, value, TARGET>>
       /\ TARGET' = TARGET]_vars

\* C10 witness: both handlers have run, the fallback branch selected the text.
C10_Witness ==
    /\ href.nav
    /\ selected
    /\ lastBranch = "caught"
    /\ value = <<"?", "=", "%">>
    /\ TARGET.str = <<"/", "w">>

====
